---- MODULE Spec2Model ----
(***************************************************************************)
(* A model of tsludo-react (src/ludoV0): the board model, the turn state   *)
(* machine (gameState.helpers), and the frame-driven animation of the dice *)
(* (PlayersPanel / diceRenderer) and of the coin (LudoBoard /              *)
(* ludoRenderer), as wired together by LudoGame.                           *)
(***************************************************************************)
EXTENDS Integers, Sequences, FiniteSets, TLC

VARIABLES
    gameState,               \* LudoGame: useState<LudoGameState>, as of the last render
    now,                     \* performance.now(), in ms
    animationStartTime,      \* window.animationStartTime (dice slot)
    lastDiceValue,           \* window.lastDiceValue
    ludoAnimationStartTime,  \* window.ludoAnimationStartTime (coin slot)
    animationPath,           \* LudoBoard: useState<AnimationPath>
    isSelectingPath,         \* LudoBoard: useState<boolean>
    prev,                    \* history: the snapshot handed to the last reducer call
    ev,                      \* history: the last event, and what its handler did
    diceRun,                 \* history: onRollDone calls since the dice slot was last armed
    coinRun,                 \* history: onAnimationComplete calls since the coin slot was last armed
    firstTick                \* history: the times of the first tick of the current dice and coin runs

vars == <<gameState, now, animationStartTime, lastDiceValue,
          ludoAnimationStartTime, animationPath, isSelectingPath,
          prev, ev, diceRun, coinRun, firstTick>>

(***************************************************************************)
(* types.tsx                                                               *)
(***************************************************************************)
RED == "Player::Red"
BLUE == "Player::Blue"
YELLOW == "Player::Yellow"
GREEN == "Player::Green"
PlayerId == {RED, BLUE, YELLOW, GREEN}

NOT_STARTED == "PlayState::NotStarted"
ROLLING == "PlayState::Rolling"
THINKING == "PlayState::Thinking"
MOVING == "PlayState::Moving"
FINISHED == "PlayState::Finished"
WON == "PlayState::Won"
LOST == "PlayState::Lost"
PlayerState == {NOT_STARTED, ROLLING, THINKING, MOVING, FINISHED, WON, LOST}

WALL == "CellType::Wall"
NORMAL == "CellType::Normal"
SAFE == "CellType::Safe"
START == "CellType::Start"
FINISH == "CellType::Finish"
HOME == "CellType::Home"

\* JavaScript's undefined, where a number is expected (an optional field or result).
Undefined == -1

\* An optional argument: <<>> when it is left out, <<x>> when x is passed.
Nullish(opt, dflt) == IF opt = <<>> THEN dflt ELSE opt[1]

Range(s) == {s[i] : i \in 1..Len(s)}

(***************************************************************************)
(* data.helpers.tsx: the board                                             *)
(***************************************************************************)
BOARD_SIZE == 15

cellTypeMask ==
    << <<0, 0, 0, 0, 0, 0, 1, 1, 1, 0, 0, 0, 0, 0, 0>>,
       <<0, 0, 0, 0, 0, 0, 1, 2, 3, 0, 0, 0, 0, 0, 0>>,
       <<0, 0, 5, 5, 0, 0, 2, 2, 1, 0, 0, 5, 5, 0, 0>>,
       <<0, 0, 5, 5, 0, 0, 1, 2, 1, 0, 0, 5, 5, 0, 0>>,
       <<0, 0, 0, 0, 0, 0, 1, 2, 1, 0, 0, 0, 0, 0, 0>>,
       <<0, 0, 0, 0, 0, 0, 1, 2, 1, 0, 0, 0, 0, 0, 0>>,
       <<1, 3, 1, 1, 1, 1, 0, 4, 0, 1, 1, 1, 2, 1, 1>>,
       <<1, 2, 2, 2, 2, 2, 4, 0, 4, 2, 2, 2, 2, 2, 1>>,
       <<1, 1, 2, 1, 1, 1, 0, 4, 0, 1, 1, 1, 1, 3, 1>>,
       <<0, 0, 0, 0, 0, 0, 1, 2, 1, 0, 0, 0, 0, 0, 0>>,
       <<0, 0, 0, 0, 0, 0, 1, 2, 1, 0, 0, 0, 0, 0, 0>>,
       <<0, 0, 5, 5, 0, 0, 1, 2, 1, 0, 0, 5, 5, 0, 0>>,
       <<0, 0, 5, 5, 0, 0, 1, 2, 3, 0, 0, 5, 5, 0, 0>>,
       <<0, 0, 0, 0, 0, 0, 3, 2, 1, 0, 0, 0, 0, 0, 0>>,
       <<0, 0, 0, 0, 0, 0, 1, 1, 1, 0, 0, 0, 0, 0, 0>> >>

playerMask ==
    << <<0, 0, 0, 0, 0, 0, 0, 0, 0, 0, 0, 0, 0, 0, 0>>,
       <<0, 0, 0, 0, 0, 0, 0, 2, 2, 0, 0, 0, 0, 0, 0>>,
       <<0, 0, 0, 0, 0, 0, 0, 2, 0, 0, 0, 0, 0, 0, 0>>,
       <<0, 0, 0, 0, 0, 0, 0, 2, 0, 0, 0, 0, 0, 0, 0>>,
       <<0, 0, 0, 0, 0, 0, 0, 2, 0, 0, 0, 0, 0, 0, 0>>,
       <<0, 0, 0, 0, 0, 0, 0, 2, 0, 0, 0, 0, 0, 0, 0>>,
       <<0, 1, 0, 0, 0, 0, 0, 2, 0, 0, 0, 0, 0, 0, 0>>,
       <<0, 1, 1, 1, 1, 1, 1, 0, 3, 3, 3, 3, 3, 3, 0>>,
       <<0, 0, 0, 0, 0, 0, 0, 4, 0, 0, 0, 0, 0, 3, 0>>,
       <<0, 0, 0, 0, 0, 0, 0, 4, 0, 0, 0, 0, 0, 0, 0>>,
       <<0, 0, 0, 0, 0, 0, 0, 4, 0, 0, 0, 0, 0, 0, 0>>,
       <<0, 0, 0, 0, 0, 0, 0, 4, 0, 0, 0, 0, 0, 0, 0>>,
       <<0, 0, 0, 0, 0, 0, 0, 4, 0, 0, 0, 0, 0, 0, 0>>,
       <<0, 0, 0, 0, 0, 0, 4, 4, 0, 0, 0, 0, 0, 0, 0>>,
       <<0, 0, 0, 0, 0, 0, 0, 0, 0, 0, 0, 0, 0, 0, 0>> >>

colorMask ==
    << <<1, 1, 1, 1, 1, 1, 0, 0, 0, 2, 2, 2, 2, 2, 2>>,
       <<1, 0, 0, 0, 0, 1, 0, 2, 2, 2, 0, 0, 0, 0, 2>>,
       <<1, 0, 1, 1, 0, 1, 0, 2, 0, 2, 0, 2, 2, 0, 2>>,
       <<1, 0, 1, 1, 0, 1, 0, 2, 0, 2, 0, 2, 2, 0, 2>>,
       <<1, 0, 0, 0, 0, 1, 0, 2, 0, 2, 0, 0, 0, 0, 2>>,
       <<1, 1, 1, 1, 1, 1, 0, 2, 0, 2, 2, 2, 2, 2, 2>>,
       <<0, 1, 0, 0, 0, 0, 0, 2, 0, 0, 0, 0, 0, 0, 0>>,
       <<0, 1, 1, 1, 1, 1, 1, 0, 3, 3, 3, 3, 3, 3, 0>>,
       <<0, 0, 0, 0, 0, 0, 0, 4, 0, 0, 0, 0, 0, 3, 0>>,
       <<4, 4, 4, 4, 4, 4, 0, 4, 0, 3, 3, 3, 3, 3, 3>>,
       <<4, 0, 0, 0, 0, 4, 0, 4, 0, 3, 0, 0, 0, 0, 3>>,
       <<4, 0, 4, 4, 0, 4, 0, 4, 0, 3, 0, 3, 3, 0, 3>>,
       <<4, 0, 4, 4, 0, 4, 0, 4, 0, 3, 0, 3, 3, 0, 3>>,
       <<4, 0, 0, 0, 0, 4, 4, 4, 0, 3, 0, 0, 0, 0, 3>>,
       <<4, 4, 4, 4, 4, 4, 0, 0, 0, 3, 3, 3, 3, 3, 3>> >>

\* Colors, by player; white when no player is given.
getPlayerColor(player) ==
    CASE player = RED -> "#ff0000"
      [] player = BLUE -> "#0088ff"
      [] player = YELLOW -> "#ffff00"
      [] player = GREEN -> "#00ff00"
      [] OTHER -> "#ffffff"

\* The player createCoinInstance(row, col) seeds a coin for; "" when it seeds none.
\* No (row, col) satisfies two of the source's branches, so the list it returns
\* holds at most one coin.
coinOwner(row, col) ==
    IF row \in {2, 3} /\ col \in {2, 3} THEN RED
    ELSE IF row \in {2, 3} /\ col \in {11, 12} THEN GREEN
    ELSE IF row \in {11, 12} /\ col \in {2, 3} THEN BLUE
    ELSE IF row \in {11, 12} /\ col \in {11, 12} THEN YELLOW
    ELSE ""

\* uuid(): random; the model's id is the seed of the getBoardMatrix call it was
\* drawn in, paired with the cell the call was made for.
uuid(seed, row, col) == <<seed, row * BOARD_SIZE + col>>

\* createCoinInstance that writes the cell's position with row and col swapped.
createCoinInstance_Transposed(seed, row, col) ==
    IF coinOwner(row, col) = "" THEN <<>>
    ELSE << [id |-> uuid(seed, row, col),
             player |-> coinOwner(row, col),
             position |-> [row |-> col, col |-> row]] >>

createCoinInstance(seed, row, col) ==
    IF coinOwner(row, col) = "" THEN <<>>
    ELSE << [id |-> uuid(seed, row, col),
             player |-> coinOwner(row, col),
             position |-> [row |-> row, col |-> col]] >>

\* The switch on cellType without its case 5.
cellType_NoHome(n) ==
    CASE n = 1 -> NORMAL
      [] n = 2 -> SAFE
      [] n = 3 -> START
      [] n = 4 -> FINISH
      [] OTHER -> WALL

cellType(n) ==
    CASE n = 1 -> NORMAL
      [] n = 2 -> SAFE
      [] n = 3 -> START
      [] n = 4 -> FINISH
      [] n = 5 -> HOME
      [] OTHER -> WALL

\* The cell's player: "" stands for the field being absent.
cellPlayer(n) ==
    CASE n = 1 -> RED
      [] n = 2 -> GREEN
      [] n = 3 -> YELLOW
      [] n = 4 -> BLUE
      [] OTHER -> ""

cellColor(n) ==
    CASE n = 1 -> getPlayerColor(RED)
      [] n = 2 -> getPlayerColor(GREEN)
      [] n = 3 -> getPlayerColor(YELLOW)
      [] n = 4 -> getPlayerColor(BLUE)
      [] OTHER -> getPlayerColor("")

\* getBoardMatrix that draws the cells' ids with uuid(), as the coins' ids are.
getBoardMatrix_RandomCellId(seed) ==
    [i1 \in 1..BOARD_SIZE |->
        [j1 \in 1..BOARD_SIZE |->
            LET i == i1 - 1
                j == j1 - 1
            IN [id |-> uuid(seed, i, j),
                position |-> [row |-> i, col |-> j],
                type |-> cellType(cellTypeMask[i1][j1]),
                player |-> cellPlayer(playerMask[i1][j1]),
                color |-> cellColor(colorMask[i1][j1]),
                coins |-> createCoinInstance(seed, i, j)]]]

\* matrix[i + 1][j + 1] is the source's matrix[i][j].
getBoardMatrix(seed) ==
    [i1 \in 1..BOARD_SIZE |->
        [j1 \in 1..BOARD_SIZE |->
            LET i == i1 - 1
                j == j1 - 1
            IN [id |-> i * BOARD_SIZE + j,
                position |-> [row |-> i, col |-> j],
                type |-> cellType(cellTypeMask[i1][j1]),
                player |-> cellPlayer(playerMask[i1][j1]),
                color |-> cellColor(colorMask[i1][j1]),
                coins |-> createCoinInstance(seed, i, j)]]]

(***************************************************************************)
(* gameState.helpers: the turn state machine                               *)
(***************************************************************************)
\* players.find((p) => p.id === playerId): the first player with that id, else
\* undefined. NotFound stands for that undefined.
NotFound == [id |-> "undefined"]

Find(players, playerId) ==
    LET hits == {i \in 1..Len(players) : players[i].id = playerId}
    IN IF hits = {} THEN NotFound
       ELSE players[CHOOSE i \in hits : \A k \in hits : i <= k]

getPlayerState(playerId, players) ==
    Find(players, playerId).state

getCurrentPlayer(gs) ==
    Find(gs.players, gs.currentPlayer)

getPlayer(playerId, gs) ==
    Find(gs.players, playerId)

\* reducePlayerState without the test of the player's id.
reducePlayerState_All(playerId, nextState, gs, movesLeft, nextPossibleStates) ==
    [k \in 1..Len(gs.players) |->
        LET player == gs.players[k]
        IN [player EXCEPT
               !.state = nextState,
               !.movesLeft = Nullish(movesLeft, player.movesLeft - 1),
               !.nextPossibleStates =
                   Nullish(nextPossibleStates, player.nextPossibleStates)]]

\* movesLeft and nextPossibleStates are optional arguments (see Nullish).
reducePlayerState(playerId, nextState, gs, movesLeft, nextPossibleStates) ==
    [k \in 1..Len(gs.players) |->
        LET player == gs.players[k]
        IN IF player.id = playerId
           THEN [player EXCEPT
                    !.state = nextState,
                    !.movesLeft = Nullish(movesLeft, player.movesLeft - 1),
                    !.nextPossibleStates =
                        Nullish(nextPossibleStates, player.nextPossibleStates)]
           ELSE player]

\* reduceDiceClick that does not take the move off the budget.
reduceDiceClick_NoDecrement(nextDiceValue, gs) ==
    LET currentPlayer == getCurrentPlayer(gs)
        movesLeft == IF nextDiceValue = 6 THEN 1 ELSE currentPlayer.movesLeft
        nextPossibleStates ==
            IF nextDiceValue = 6 THEN <<THINKING>>
            ELSE currentPlayer.nextPossibleStates
    IN [gs EXCEPT
            !.diceState = [value |-> nextDiceValue, rolling |-> TRUE],
            !.players = reducePlayerState(gs.currentPlayer, ROLLING, gs,
                                          <<movesLeft>>, <<nextPossibleStates>>)]

\* reduceDiceClick whose six resets the budget and leaves the next states.
reduceDiceClick_KeepNext(nextDiceValue, gs) ==
    LET currentPlayer == getCurrentPlayer(gs)
        movesLeft == IF nextDiceValue = 6 THEN 1 ELSE currentPlayer.movesLeft - 1
    IN [gs EXCEPT
            !.diceState = [value |-> nextDiceValue, rolling |-> TRUE],
            !.players = reducePlayerState(gs.currentPlayer, ROLLING, gs,
                                          <<movesLeft>>,
                                          <<currentPlayer.nextPossibleStates>>)]

\* reduceDiceClick that moves into Moving when the player's nextPossibleStates
\* permit it.
reduceDiceClick_FollowNext(nextDiceValue, gs) ==
    LET currentPlayer == getCurrentPlayer(gs)
        movesLeft == IF nextDiceValue = 6 THEN 1 ELSE currentPlayer.movesLeft - 1
        nextPossibleStates ==
            IF nextDiceValue = 6 THEN <<THINKING>>
            ELSE currentPlayer.nextPossibleStates
        nextState ==
            IF currentPlayer.nextPossibleStates = <<MOVING>> THEN MOVING
            ELSE ROLLING
    IN [gs EXCEPT
            !.diceState = [value |-> nextDiceValue, rolling |-> TRUE],
            !.players = reducePlayerState(gs.currentPlayer, nextState, gs,
                                          <<movesLeft>>, <<nextPossibleStates>>)]

reduceDiceClick(nextDiceValue, gs) ==
    LET currentPlayer == getCurrentPlayer(gs)
        movesLeft == IF nextDiceValue = 6 THEN 1 ELSE currentPlayer.movesLeft - 1
        nextPossibleStates ==
            IF nextDiceValue = 6 THEN <<THINKING>>
            ELSE currentPlayer.nextPossibleStates
    IN [gs EXCEPT
            !.diceState = [value |-> nextDiceValue, rolling |-> TRUE],
            !.players = reducePlayerState(gs.currentPlayer, ROLLING, gs,
                                          <<movesLeft>>, <<nextPossibleStates>>)]

\* reduceDiceRollDone that builds the dice state without spreading the old one.
reduceDiceRollDone_DropValue(gs) ==
    LET currentPlayer == getCurrentPlayer(gs)
        movesLeft ==
            IF gs.diceState.value = 6 THEN 1 ELSE currentPlayer.movesLeft - 1
        nextPossibleStates ==
            IF gs.diceState.value = 6 THEN <<MOVING>>
            ELSE currentPlayer.nextPossibleStates
    IN [gs EXCEPT
            !.diceState = [value |-> Undefined, rolling |-> FALSE],
            !.players = reducePlayerState(gs.currentPlayer, THINKING, gs,
                                          <<movesLeft>>, <<nextPossibleStates>>)]

\* reduceDiceRollDone whose six does not reset the budget.
reduceDiceRollDone_NoBonus(gs) ==
    LET currentPlayer == getCurrentPlayer(gs)
        movesLeft == currentPlayer.movesLeft - 1
        nextPossibleStates ==
            IF gs.diceState.value = 6 THEN <<MOVING>>
            ELSE currentPlayer.nextPossibleStates
    IN [gs EXCEPT
            !.diceState = [gs.diceState EXCEPT !.rolling = FALSE],
            !.players = reducePlayerState(gs.currentPlayer, THINKING, gs,
                                          <<movesLeft>>, <<nextPossibleStates>>)]

\* reduceDiceRollDone whose six permits another roll instead of the move.
reduceDiceRollDone_RollAgain(gs) ==
    LET currentPlayer == getCurrentPlayer(gs)
        movesLeft ==
            IF gs.diceState.value = 6 THEN 1 ELSE currentPlayer.movesLeft - 1
        nextPossibleStates ==
            IF gs.diceState.value = 6 THEN <<ROLLING>>
            ELSE currentPlayer.nextPossibleStates
    IN [gs EXCEPT
            !.diceState = [gs.diceState EXCEPT !.rolling = FALSE],
            !.players = reducePlayerState(gs.currentPlayer, THINKING, gs,
                                          <<movesLeft>>, <<nextPossibleStates>>)]

\* reduceDiceRollDone that hands the turn to Green once no move is left.
reduceDiceRollDone_PassTurn(gs) ==
    LET currentPlayer == getCurrentPlayer(gs)
        movesLeft ==
            IF gs.diceState.value = 6 THEN 1 ELSE currentPlayer.movesLeft - 1
        nextPossibleStates ==
            IF gs.diceState.value = 6 THEN <<MOVING>>
            ELSE currentPlayer.nextPossibleStates
    IN [gs EXCEPT
            !.currentPlayer = IF movesLeft <= 0 THEN GREEN ELSE gs.currentPlayer,
            !.diceState = [gs.diceState EXCEPT !.rolling = FALSE],
            !.players = reducePlayerState(gs.currentPlayer, THINKING, gs,
                                          <<movesLeft>>, <<nextPossibleStates>>)]

\* reduceDiceRollDone that leaves diceState.rolling as it is.
reduceDiceRollDone_StillRolling(gs) ==
    LET currentPlayer == getCurrentPlayer(gs)
        movesLeft ==
            IF gs.diceState.value = 6 THEN 1 ELSE currentPlayer.movesLeft - 1
        nextPossibleStates ==
            IF gs.diceState.value = 6 THEN <<MOVING>>
            ELSE currentPlayer.nextPossibleStates
    IN [gs EXCEPT
            !.players = reducePlayerState(gs.currentPlayer, THINKING, gs,
                                          <<movesLeft>>, <<nextPossibleStates>>)]

\* reduceDiceRollDone that takes no move off the budget.
reduceDiceRollDone_KeepMoves(gs) ==
    LET currentPlayer == getCurrentPlayer(gs)
        movesLeft ==
            IF gs.diceState.value = 6 THEN 1 ELSE currentPlayer.movesLeft
        nextPossibleStates ==
            IF gs.diceState.value = 6 THEN <<MOVING>>
            ELSE currentPlayer.nextPossibleStates
    IN [gs EXCEPT
            !.diceState = [gs.diceState EXCEPT !.rolling = FALSE],
            !.players = reducePlayerState(gs.currentPlayer, THINKING, gs,
                                          <<movesLeft>>, <<nextPossibleStates>>)]

reduceDiceRollDone(gs) ==
    LET currentPlayer == getCurrentPlayer(gs)
        movesLeft ==
            IF gs.diceState.value = 6 THEN 1 ELSE currentPlayer.movesLeft - 1
        nextPossibleStates ==
            IF gs.diceState.value = 6 THEN <<MOVING>>
            ELSE currentPlayer.nextPossibleStates
    IN [gs EXCEPT
            !.diceState = [gs.diceState EXCEPT !.rolling = FALSE],
            !.players = reducePlayerState(gs.currentPlayer, THINKING, gs,
                                          <<movesLeft>>, <<nextPossibleStates>>)]

\* boardMatrix.flat(): the cells in row-major order.
Flat(matrix) ==
    [k \in 1..(BOARD_SIZE * BOARD_SIZE) |->
        matrix[((k - 1) \div BOARD_SIZE) + 1][((k - 1) % BOARD_SIZE) + 1]]

HasCoin(cell) == cell.coins # <<>>

\* createPlayer that takes the coins of every cell, whoever owns them.
createPlayer_AnyCoin(playerId, cellsWithCoins) ==
    [id |-> playerId,
     state |-> NOT_STARTED,
     coins |-> [k \in 1..Len(cellsWithCoins) |-> cellsWithCoins[k].coins[1]],
     movesLeft |-> 3,
     nextPossibleStates |-> <<ROLLING>>]

createPlayer(playerId, cellsWithCoins) ==
    LET OwnedBy(cell) == cell.coins[1].player = playerId
        cells == SelectSeq(cellsWithCoins, OwnedBy)
    IN [id |-> playerId,
        state |-> NOT_STARTED,
        coins |-> [k \in 1..Len(cells) |-> cells[k].coins[1]],
        movesLeft |-> 3,
        nextPossibleStates |-> <<ROLLING>>]

\* The boardMatrix field is a reference to the matrix object that the
\* getBoardMatrix call of initiateGameState built, which no code writes to
\* afterwards: the model keeps the seed of that call as the reference, and
\* BoardOf follows it.
BoardOf(gs) == getBoardMatrix(gs.boardMatrix)

\* initiateGameState whose fourth player is a second Red.
initiateGameState_TwiceRed(seed) ==
    LET boardMatrix == getBoardMatrix(seed)
        cellsWithCoins == SelectSeq(Flat(boardMatrix), HasCoin)
    IN [currentPlayer |-> RED,
        started |-> FALSE,
        boardMatrix |-> seed,
        players |-> << createPlayer(RED, cellsWithCoins),
                       createPlayer(GREEN, cellsWithCoins),
                       createPlayer(YELLOW, cellsWithCoins),
                       createPlayer(RED, cellsWithCoins) >>,
        diceState |-> [value |-> 3, rolling |-> FALSE]]

initiateGameState(seed) ==
    LET boardMatrix == getBoardMatrix(seed)
        cellsWithCoins == SelectSeq(Flat(boardMatrix), HasCoin)
    IN [currentPlayer |-> RED,
        started |-> FALSE,
        boardMatrix |-> seed,
        players |-> << createPlayer(RED, cellsWithCoins),
                       createPlayer(GREEN, cellsWithCoins),
                       createPlayer(YELLOW, cellsWithCoins),
                       createPlayer(BLUE, cellsWithCoins) >>,
        diceState |-> [value |-> 3, rolling |-> FALSE]]


(***************************************************************************)
(* graphics.helpers: easing. A time is a fraction <<n, d>> with d > 0; a   *)
(* result is [error, num, den], error standing for the thrown Error.       *)
(***************************************************************************)
Thrown == [error |-> TRUE, num |-> 0, den |-> 1]

easeOut(time) ==
    LET n == time[1]
        d == time[2]
    IN IF n > d THEN Thrown
       ELSE IF n < 0 THEN Thrown
       ELSE [error |-> FALSE, num |-> d * d - (d - n) * (d - n), den |-> d * d]

\* easeIn that clamps its argument instead of throwing.
easeIn_Clamped(time) ==
    LET d == time[2]
        n == IF time[1] > d THEN d ELSE IF time[1] < 0 THEN 0 ELSE time[1]
    IN [error |-> FALSE, num |-> n * n, den |-> d * d]

easeIn(time) ==
    LET n == time[1]
        d == time[2]
    IN IF n > d THEN Thrown
       ELSE IF n < 0 THEN Thrown
       ELSE [error |-> FALSE, num |-> n * n, den |-> d * d]

\* easeInOut whose second branch leaves out the division by 2.
easeInOut_NoHalving(time) ==
    LET n == time[1]
        d == time[2]
    IN IF n > d THEN Thrown
       ELSE IF n < 0 THEN Thrown
       ELSE IF 2 * n < d
       THEN [error |-> FALSE, num |-> 2 * n * n, den |-> d * d]
       ELSE [error |-> FALSE,
             num |-> d * d - (-2 * n + 2 * d) * (-2 * n + 2 * d),
             den |-> d * d]

\* time < 0.5 is 2n < d; 1 - (-2 time + 2) ** 2 / 2 over the denominator 2 d^2.
easeInOut(time) ==
    LET n == time[1]
        d == time[2]
    IN IF n > d THEN Thrown
       ELSE IF n < 0 THEN Thrown
       ELSE IF 2 * n < d
       THEN [error |-> FALSE, num |-> 2 * n * n, den |-> d * d]
       ELSE [error |-> FALSE,
             num |-> 2 * d * d - (-2 * n + 2 * d) * (-2 * n + 2 * d),
             den |-> 2 * d * d]

(***************************************************************************)
(* diceRenderer.tsx                                                        *)
(***************************************************************************)
\* Math.floor(Math.random() * 6) + 1, Math.random() being in [0, 1).
getRandomDiceValue == 1..6

\* !x for a number slot: undefined and 0 are falsy.
Falsy(x) == x = Undefined \/ x = 0

\* The outcomes of Math.random() < p for p = num/den: never when p = 0, always
\* when p = 1.
RandomBelow(p) == {b \in BOOLEAN : (b => p.num > 0) /\ (~b => p.num < p.den)}

NoDiceTick(startTime, lastValue, drawn) ==
    [animationStartTime |-> startTime,
     lastDiceValue |-> lastValue,
     drawn |-> drawn,
     rollDone |-> FALSE,
     ticked |-> FALSE,
     armedBefore |-> ~Falsy(startTime),
     timeElapsed |-> 0,
     eased |-> [error |-> FALSE, num |-> 0, den |-> 1],
     skipped |-> FALSE]

\* animateDiceFace whose last frame leaves window.lastDiceValue as it is.
animateDiceFace_KeepFace(diceState, startTime, lastValue, t, animationDuration, face, skip) ==
    LET armed == ~Falsy(startTime)
        timeElapsed == t - startTime
        isLastFrame == armed /\ timeElapsed > animationDuration
        eased == IF armed /\ ~isLastFrame
                 THEN easeOut(<<timeElapsed, animationDuration>>)
                 ELSE [error |-> FALSE, num |-> 0, den |-> 1]
        skipFrame == armed /\ ~isLastFrame /\ skip
    IN IF diceState.rolling
       THEN [animationStartTime |->
                 IF ~armed THEN t ELSE IF isLastFrame THEN 0 ELSE startTime,
             lastDiceValue |->
                 IF isLastFrame THEN lastValue
                 ELSE IF ~skipFrame THEN face ELSE lastValue,
             drawn |-> IF Falsy(lastValue) THEN diceState.value ELSE lastValue,
             rollDone |-> isLastFrame,
             ticked |-> TRUE,
             armedBefore |-> armed,
             timeElapsed |-> IF armed THEN timeElapsed ELSE 0,
             eased |-> eased,
             skipped |-> skipFrame]
       ELSE NoDiceTick(startTime, lastValue, diceState.value)

\* animateDiceFace that draws a new face on every frame but the last, skipped
\* or not.
animateDiceFace_RedrawOnSkip(diceState, startTime, lastValue, t, animationDuration, face, skip) ==
    LET armed == ~Falsy(startTime)
        timeElapsed == t - startTime
        isLastFrame == armed /\ timeElapsed > animationDuration
        eased == IF armed /\ ~isLastFrame
                 THEN easeOut(<<timeElapsed, animationDuration>>)
                 ELSE [error |-> FALSE, num |-> 0, den |-> 1]
        skipFrame == armed /\ ~isLastFrame /\ skip
    IN IF diceState.rolling
       THEN [animationStartTime |->
                 IF ~armed THEN t ELSE IF isLastFrame THEN 0 ELSE startTime,
             lastDiceValue |-> IF isLastFrame THEN diceState.value ELSE face,
             drawn |-> IF Falsy(lastValue) THEN diceState.value ELSE lastValue,
             rollDone |-> isLastFrame,
             ticked |-> TRUE,
             armedBefore |-> armed,
             timeElapsed |-> IF armed THEN timeElapsed ELSE 0,
             eased |-> eased,
             skipped |-> skipFrame]
       ELSE NoDiceTick(startTime, lastValue, diceState.value)

\* One call of animateDiceFace (renderDice) at time t. face is what
\* getRandomDiceValue() would return and skip what the Math.random() comparison
\* would give, should the call come to them. The result: the two window slots
\* after the call, the face drawn, and whether onRollDone was called.
animateDiceFace(diceState, startTime, lastValue, t, animationDuration, face, skip) ==
    LET armed == ~Falsy(startTime)
        timeElapsed == t - startTime
        isLastFrame == armed /\ timeElapsed > animationDuration
        eased == IF armed /\ ~isLastFrame
                 THEN easeOut(<<timeElapsed, animationDuration>>)
                 ELSE [error |-> FALSE, num |-> 0, den |-> 1]
        skipFrame == armed /\ ~isLastFrame /\ skip
    IN IF diceState.rolling
       THEN [animationStartTime |->
                 IF ~armed THEN t ELSE IF isLastFrame THEN 0 ELSE startTime,
             lastDiceValue |->
                 IF isLastFrame THEN diceState.value
                 ELSE IF ~skipFrame THEN face ELSE lastValue,
             drawn |-> IF Falsy(lastValue) THEN diceState.value ELSE lastValue,
             rollDone |-> isLastFrame,
             ticked |-> TRUE,
             armedBefore |-> armed,
             timeElapsed |-> IF armed THEN timeElapsed ELSE 0,
             eased |-> eased,
             skipped |-> skipFrame]
       ELSE NoDiceTick(startTime, lastValue, diceState.value)


(***************************************************************************)
(* ludoRenderer.tsx                                                        *)
(***************************************************************************)
\* a / b for integers a >= 0, b > 0: the quotient as a fraction in lowest terms.
RECURSIVE GCD(_, _)
GCD(a, b) == IF b = 0 THEN a ELSE GCD(b, a % b)

Ratio(a, b) == <<a \div GCD(a, b), b \div GCD(a, b)>>

\* No coin drawn by animateCoins.
NoPosition == [x |-> <<0, 1>>, y |-> <<0, 1>>]

\* start + (end - start) * easeOutFactor, per coordinate, as a fraction.
nextPosition(start, end, easeOutFactor) ==
    [x |-> <<start.x * easeOutFactor.den + (end.x - start.x) * easeOutFactor.num,
             easeOutFactor.den>>,
     y |-> <<start.y * easeOutFactor.den + (end.y - start.y) * easeOutFactor.num,
             easeOutFactor.den>>]

\* A frame without a coin tick that empties the coin slot.
NoCoinTick_ClearSlot(startTime) ==
    [ludoAnimationStartTime |-> Undefined,
     complete |-> FALSE,
     ticked |-> FALSE,
     armedBefore |-> ~Falsy(startTime),
     timeElapsed |-> 0,
     thrown |-> FALSE,
     drawn |-> FALSE,
     position |-> NoPosition]

NoCoinTick(startTime) ==
    [ludoAnimationStartTime |-> startTime,
     complete |-> FALSE,
     ticked |-> FALSE,
     armedBefore |-> ~Falsy(startTime),
     timeElapsed |-> 0,
     thrown |-> FALSE,
     drawn |-> FALSE,
     position |-> NoPosition]

\* animateCoins that completes without clearing the coin slot.
animateCoins_KeepSlot(path, startTime, t, animationDuration) ==
    LET armed == ~Falsy(startTime)
        timeElapsed == t - startTime
        done == armed /\ timeElapsed > animationDuration
        easeOutFactor == IF armed /\ ~done
                         THEN easeInOut(Ratio(timeElapsed, animationDuration))
                         ELSE Thrown
    IN IF Len(path) < 2 THEN NoCoinTick(startTime)
       ELSE [ludoAnimationStartTime |-> IF armed THEN startTime ELSE t,
             complete |-> done,
             ticked |-> TRUE,
             armedBefore |-> armed,
             timeElapsed |-> IF armed THEN timeElapsed ELSE 0,
             thrown |-> armed /\ ~done /\ easeOutFactor.error,
             drawn |-> ~easeOutFactor.error,
             position |-> IF easeOutFactor.error THEN NoPosition
                          ELSE nextPosition(path[1], path[2], easeOutFactor)]

\* animateCoins that completes once twice the duration has elapsed.
animateCoins_TwiceDuration(path, startTime, t, animationDuration) ==
    LET armed == ~Falsy(startTime)
        timeElapsed == t - startTime
        done == armed /\ timeElapsed > 2 * animationDuration
        easeOutFactor == IF armed /\ ~done
                         THEN easeInOut(Ratio(timeElapsed, animationDuration))
                         ELSE Thrown
    IN IF Len(path) < 2 THEN NoCoinTick(startTime)
       ELSE [ludoAnimationStartTime |->
                 IF ~armed THEN t ELSE IF done THEN Undefined ELSE startTime,
             complete |-> done,
             ticked |-> TRUE,
             armedBefore |-> armed,
             timeElapsed |-> IF armed THEN timeElapsed ELSE 0,
             thrown |-> armed /\ ~done /\ easeOutFactor.error,
             drawn |-> ~easeOutFactor.error,
             position |-> IF easeOutFactor.error THEN NoPosition
                          ELSE nextPosition(path[1], path[2], easeOutFactor)]

\* animateCoins that arms the slot before it looks at the path.
animateCoins_ArmFirst(path, startTime, t, animationDuration) ==
    LET armed == ~Falsy(startTime)
        timeElapsed == t - startTime
        done == armed /\ timeElapsed > animationDuration
        easeOutFactor == IF armed /\ ~done
                         THEN easeInOut(Ratio(timeElapsed, animationDuration))
                         ELSE Thrown
    IN IF Len(path) < 2 THEN NoCoinTick(IF armed THEN startTime ELSE t)
       ELSE [ludoAnimationStartTime |->
                 IF ~armed THEN t ELSE IF done THEN Undefined ELSE startTime,
             complete |-> done,
             ticked |-> TRUE,
             armedBefore |-> armed,
             timeElapsed |-> IF armed THEN timeElapsed ELSE 0,
             thrown |-> armed /\ ~done /\ easeOutFactor.error,
             drawn |-> ~easeOutFactor.error,
             position |-> IF easeOutFactor.error THEN NoPosition
                          ELSE nextPosition(path[1], path[2], easeOutFactor)]

\* One call of animateCoins at time t: the coin slot after the call, whether
\* onAnimationComplete was called, and whether and where renderCoin drew the
\* sliding coin. The call that arms the slot and the call that completes draw
\* no coin; a call whose easeInOut throws draws none either.
animateCoins(path, startTime, t, animationDuration) ==
    LET armed == ~Falsy(startTime)
        timeElapsed == t - startTime
        done == armed /\ timeElapsed > animationDuration
        easeOutFactor == IF armed /\ ~done
                         THEN easeInOut(Ratio(timeElapsed, animationDuration))
                         ELSE Thrown
    IN IF Len(path) < 2 THEN NoCoinTick(startTime)
       ELSE [ludoAnimationStartTime |->
                 IF ~armed THEN t ELSE IF done THEN Undefined ELSE startTime,
             complete |-> done,
             ticked |-> TRUE,
             armedBefore |-> armed,
             timeElapsed |-> IF armed THEN timeElapsed ELSE 0,
             thrown |-> armed /\ ~done /\ easeOutFactor.error,
             drawn |-> ~easeOutFactor.error,
             position |-> IF easeOutFactor.error THEN NoPosition
                          ELSE nextPosition(path[1], path[2], easeOutFactor)]

\* renderLudo that animates whether or not the game is started.
renderLudo_IgnoreStarted(gs, path, startTime, t, animationTime) ==
    IF Len(path) > 0
    THEN animateCoins(path, startTime, t, animationTime)
    ELSE NoCoinTick(startTime)

renderLudo(gs, path, startTime, t, animationTime) ==
    IF Len(path) > 0 /\ gs.started
    THEN animateCoins(path, startTime, t, animationTime)
    ELSE NoCoinTick(startTime)

(***************************************************************************)
(* Bounds of the model                                                     *)
(***************************************************************************)
\* The clock stops at MaxTime.
MaxTime == 3001
\* performance.now() at the first event.
FirstTime == 1
\* The time between two events, in ms.
ClockSteps == {500}
\* movesLeft is followed down to -MaxDebt.
MaxDebt == 1
\* The highest movesLeft of a snapshot handed to a reducer.
MaxMoves == 3
\* A path holds at most MaxPath points.
MaxPath == 2
\* The seeds of uuid(): what its random source gives in one page load.
Seeds == {1, 2}
\* The page's game state is built by one initiateGameState call; the model names
\* the board object of that call by the first seed.
PageSeed == CHOOSE seed \in Seeds : \A other \in Seeds : seed <= other
\* The faces the model lets Math.random() produce: the lowest and the highest.
SampleFaces == {f \in getRandomDiceValue : f \in {1, 6}}
\* The cells of the board a click lands on: (row, col).
ClickCells == {<<6, 1>>}

(***************************************************************************)
(* PlayersPanel.tsx, LudoBoard.tsx, LudoGame.tsx: the events               *)
(***************************************************************************)
DiceDuration == 2000
CoinDuration == 500
BoardHeight == 750

getCellCenter(cell, cellSize) ==
    [x |-> cell.position.col * cellSize + cellSize \div 2,
     y |-> cell.position.row * cellSize + cellSize \div 2]

\* The history of the runs, where it is kept: <<the time of the first tick of
\* the roll of the last dice click, the time of the first tick of the slide of
\* the last path or start request>>, a time being undefined until that tick
\* and again once the run has completed. A specification that does not ask for
\* it starts with NotKept, and NotKept it stays.
NotKept == <<>>
NoRun == <<Undefined, Undefined>>

\* A new run of kind k (1: dice, 2: coin) begins.
Restart(first, k) == [j \in DOMAIN first |-> IF j = k THEN Undefined ELSE first[j]]

\* The history of an event: the handler (op) and its argument (value), the
\* event before it (priorOp, priorValue), what the dice and the coin
\* animation did in it (drawn: the face renderDiceFace was given, 0 when
\* renderDice was not called; kept: window.lastDiceValue is what it was), and,
\* for a call of an easing function, its argument (time) and result (eased).
NoEvent ==
    [op |-> "none", value |-> 0, priorOp |-> "none", priorValue |-> 0,
     movesBefore |-> 0,
     dice |-> [ticked |-> FALSE, armedBefore |-> FALSE, timeElapsed |-> 0,
               rollDone |-> FALSE, sinceFirst |-> 0, thrown |-> FALSE, drawn |-> 0,
               skipped |-> FALSE, kept |-> TRUE],
     coin |-> [ticked |-> FALSE, armedBefore |-> FALSE, timeElapsed |-> 0,
               complete |-> FALSE, sinceFirst |-> 0, thrown |-> FALSE,
               drawn |-> FALSE, passed |-> 0,
               position |-> NoPosition],
     time |-> <<0, 1>>, eased |-> Thrown]

Init ==
    /\ gameState = initiateGameState(PageSeed)
    /\ now = FirstTime
    /\ animationStartTime = Undefined
    /\ lastDiceValue = Undefined
    /\ ludoAnimationStartTime = Undefined
    /\ animationPath = <<>>
    /\ isSelectingPath = FALSE
    /\ prev = gameState
    /\ ev = NoEvent
    /\ diceRun = 0
    /\ coinRun = 0
    /\ firstTick = NotKept

\* The clock moves between events.
AdvanceClock(d) ==
    /\ now + d <= MaxTime
    /\ now' = now + d
    /\ ev' = NoEvent
    /\ UNCHANGED <<gameState, animationStartTime, lastDiceValue,
                   ludoAnimationStartTime, animationPath, isSelectingPath,
                   prev, diceRun, coinRun, firstTick>>

\* PlayersPanel handleClick -> LudoGame onUpdateDiceValue.
DiceCanvasClick(diceValue) ==
    /\ diceValue = 6 \/ getCurrentPlayer(gameState).movesLeft - 1 > -MaxDebt
    /\ gameState' = reduceDiceClick(diceValue, gameState)
    /\ ev' = [NoEvent EXCEPT !.op = "click", !.value = diceValue]
    /\ UNCHANGED <<now, animationStartTime, lastDiceValue, ludoAnimationStartTime,
                   animationPath, isSelectingPath, prev, diceRun, coinRun>>
    /\ firstTick' = Restart(firstTick, 1)

\* A button that stops the game when it is started.
StartButtonClick_Toggle ==
    /\ gameState' = [gameState EXCEPT !.started = ~gameState.started]
    /\ ev' = [NoEvent EXCEPT !.op = "start"]
    /\ UNCHANGED <<now, animationStartTime, lastDiceValue, ludoAnimationStartTime,
                   animationPath, isSelectingPath, prev, diceRun, coinRun>>
    /\ firstTick' = IF gameState.started THEN firstTick
                    ELSE Restart(firstTick, 2)

\* LudoBoard button onClick -> LudoGame onUpdate.
StartButtonClick ==
    /\ gameState' = [gameState EXCEPT !.started = TRUE]
    /\ ev' = [NoEvent EXCEPT !.op = "start"]
    /\ UNCHANGED <<now, animationStartTime, lastDiceValue, ludoAnimationStartTime,
                   animationPath, isSelectingPath, prev, diceRun, coinRun>>
    /\ firstTick' = IF gameState.started THEN firstTick
                    ELSE Restart(firstTick, 2)

\* LudoBoard handleClick for a 'click' on the cell at rc.
BoardCanvasClick(rc) ==
    LET cell == BoardOf(gameState)[rc[1] + 1][rc[2] + 1]
        center == getCellCenter(cell, BoardHeight)
    IN /\ ~isSelectingPath \/ Len(animationPath) < MaxPath
       /\ animationPath' = IF ~isSelectingPath THEN <<center>>
                           ELSE Append(animationPath, center)
       /\ isSelectingPath' = TRUE
       /\ ev' = NoEvent
       /\ UNCHANGED <<gameState, now, animationStartTime, lastDiceValue,
                      ludoAnimationStartTime, prev, diceRun, coinRun>>
       /\ firstTick' = Restart(firstTick, 2)

\* LudoBoard handleClick for a 'contextmenu' on the cell at rc. The listener is
\* the handleClick of the first render: it sees isSelectingPath = false.
BoardContextMenu(rc) ==
    LET cell == BoardOf(gameState)[rc[1] + 1][rc[2] + 1]
        center == getCellCenter(cell, BoardHeight)
    IN /\ animationPath' = <<center>>
       /\ isSelectingPath' = FALSE
       /\ ev' = NoEvent
       /\ UNCHANGED <<gameState, now, animationStartTime, lastDiceValue,
                      ludoAnimationStartTime, prev, diceRun, coinRun>>
       /\ firstTick' = Restart(firstTick, 2)

\* The path LudoBoard's render effect hands to renderLudo.
PathPassed(selected) == IF Len(selected) > 1 THEN selected ELSE <<>>

\* One flush of the effects of a render: PlayersPanel's renderDice when runDice,
\* then LudoBoard's renderLudo when runBoard, both closed over the gameState of
\* that render. onCompleteRoll updates the latest state; the board's
\* onAnimationComplete replaces it by the rendered one with started = false.
\* The dice effect runs on a frame of the loop that runs while rolling, and,
\* while not rolling, when the frame count is set back to 0; the board effect on
\* a frame of the loop that runs while started, and when gameState has changed.
Frame(runDice, runBoard, face, skip) ==
    LET d == IF runDice
             THEN animateDiceFace(gameState.diceState, animationStartTime,
                                  lastDiceValue, now, DiceDuration, face, skip)
             ELSE NoDiceTick(animationStartTime, lastDiceValue, 0)
        path == PathPassed(animationPath)
        c == IF runBoard
             THEN renderLudo(gameState, path, ludoAnimationStartTime, now,
                             CoinDuration)
             ELSE NoCoinTick(ludoAnimationStartTime)
        First(k, ticked, done) ==
            IF done THEN Undefined
            ELSE IF ticked /\ firstTick[k] = Undefined THEN now
            ELSE firstTick[k]
        Since(k, ticked) ==
            IF ~ticked \/ firstTick = NotKept THEN 0
            ELSE IF firstTick[k] = Undefined THEN 0
            ELSE now - firstTick[k]
        afterDice == IF d.rollDone THEN reduceDiceRollDone(gameState) ELSE gameState
        afterBoard == IF c.complete THEN [gameState EXCEPT !.started = FALSE]
                      ELSE afterDice
    IN /\ runDice \/ runBoard
       /\ runDice /\ gameState.started => runBoard
       /\ skip \in RandomBelow(d.eased)
       /\ animationStartTime' = d.animationStartTime
       /\ lastDiceValue' = d.lastDiceValue
       /\ ludoAnimationStartTime' = c.ludoAnimationStartTime
       /\ gameState' = afterBoard
       /\ diceRun' = IF d.ticked /\ ~d.armedBefore THEN 0
                     ELSE IF d.rollDone THEN diceRun + 1 ELSE diceRun
       /\ coinRun' = IF c.ticked /\ ~c.armedBefore THEN 0
                     ELSE IF c.complete THEN coinRun + 1 ELSE coinRun
       /\ firstTick' = [k \in DOMAIN firstTick |->
                           IF k = 1 THEN First(k, d.ticked, d.rollDone)
                           ELSE First(k, c.ticked, c.complete)]
       /\ ev' = [op |-> "frame", value |-> 0, priorOp |-> "none", priorValue |-> 0,
                 movesBefore |-> 0,
                 dice |-> [ticked |-> d.ticked, armedBefore |-> d.armedBefore,
                           timeElapsed |-> d.timeElapsed, rollDone |-> d.rollDone,
                           sinceFirst |-> Since(1, d.ticked),
                           thrown |-> d.eased.error,
                           drawn |-> d.drawn, skipped |-> d.skipped,
                           kept |-> d.lastDiceValue = lastDiceValue],
                 coin |-> [ticked |-> c.ticked, armedBefore |-> c.armedBefore,
                           timeElapsed |-> c.timeElapsed, complete |-> c.complete,
                           sinceFirst |-> Since(2, c.ticked),
                           thrown |-> c.thrown,
                           drawn |-> c.drawn, passed |-> Len(path),
                           position |-> c.position],
                 time |-> NoEvent.time, eased |-> NoEvent.eased]
       /\ UNCHANGED <<now, animationPath, isSelectingPath, prev>>

\* A flush in which the board effect runs on a frame of LudoBoard's loop, which
\* is scheduled only while started.
LoopFrame(runDice, runBoard, face, skip) ==
    /\ runBoard => gameState.started
    /\ Frame(runDice, runBoard, face, skip)

Next ==
    \/ \E d \in ClockSteps : AdvanceClock(d)
    \/ \E v \in SampleFaces : DiceCanvasClick(v)
    \/ StartButtonClick
    \/ \E rc \in ClickCells : BoardCanvasClick(rc)
    \/ \E rc \in ClickCells : BoardContextMenu(rc)
    \/ \E runDice, runBoard, skip \in BOOLEAN : \E face \in SampleFaces :
           LoopFrame(runDice, runBoard, face, skip)

Spec == Init /\ [][Next]_vars


(***************************************************************************)
(* The turn state machine on its own: the two reducers of gameState.helpers *)
(* applied in any order (TurnSpec), and applied once to any snapshot        *)
(* (ReducerSpec).                                                          *)
(***************************************************************************)
ReduceDiceClick(nextDiceValue) ==
    /\ gameState' = reduceDiceClick(nextDiceValue, gameState)
    /\ prev' = gameState
    /\ ev' = [NoEvent EXCEPT !.op = "click", !.value = nextDiceValue,
                             !.priorOp = ev.op, !.priorValue = ev.value,
                             !.movesBefore = getCurrentPlayer(gameState).movesLeft]
    /\ UNCHANGED <<now, animationStartTime, lastDiceValue, ludoAnimationStartTime,
                   animationPath, isSelectingPath, diceRun, coinRun, firstTick>>

ReduceDiceRollDone ==
    /\ gameState' = reduceDiceRollDone(gameState)
    /\ prev' = gameState
    /\ ev' = [NoEvent EXCEPT !.op = "settle", !.value = gameState.diceState.value,
                             !.priorOp = ev.op, !.priorValue = ev.value,
                             !.movesBefore =
                                 IF ev.op = "click" THEN ev.movesBefore
                                 ELSE getCurrentPlayer(gameState).movesLeft]
    /\ UNCHANGED <<now, animationStartTime, lastDiceValue, ludoAnimationStartTime,
                   animationPath, isSelectingPath, diceRun, coinRun, firstTick>>

\* The model follows movesLeft down to -MaxDebt: a step that would take it lower
\* is left out.
WithinDebt(six) ==
    six \/ getCurrentPlayer(gameState).movesLeft - 1 >= -MaxDebt

TurnNext ==
    \/ \E v \in getRandomDiceValue : WithinDebt(v = 6) /\ ReduceDiceClick(v)
    \/ WithinDebt(gameState.diceState.value = 6) /\ ReduceDiceRollDone

TurnSpec == Init /\ [][TurnNext]_vars

\* The snapshots handed to a reducer: the initial one with any current player,
\* any state, move budget and next states for that player, any dice and any
\* started flag.
SampleNextStates == {<<>>, <<ROLLING>>, <<THINKING, MOVING>>}
SampleStates == {NOT_STARTED, ROLLING, THINKING, MOVING}
SampleDice == {1, 3, 6}

Snapshot(seed, current, state, movesLeft, nextPossibleStates, value, rolling, started) ==
    LET gs == initiateGameState(seed)
    IN [gs EXCEPT
            !.currentPlayer = current,
            !.started = started,
            !.diceState = [value |-> value, rolling |-> rolling],
            !.players = [k \in 1..Len(gs.players) |->
                IF gs.players[k].id = current
                THEN [gs.players[k] EXCEPT
                         !.state = state,
                         !.movesLeft = movesLeft,
                         !.nextPossibleStates = nextPossibleStates]
                ELSE gs.players[k]]]

ReducerInit ==
    /\ \E seed \in Seeds, current \in PlayerId, state \in SampleStates,
          movesLeft \in (-MaxDebt)..MaxMoves,
          nextPossibleStates \in SampleNextStates, value \in SampleDice,
          rolling \in BOOLEAN, started \in BOOLEAN :
            gameState = Snapshot(seed, current, state, movesLeft,
                                 nextPossibleStates, value, rolling, started)
    /\ now = FirstTime
    /\ animationStartTime = Undefined
    /\ lastDiceValue = Undefined
    /\ ludoAnimationStartTime = Undefined
    /\ animationPath = <<>>
    /\ isSelectingPath = FALSE
    /\ prev = gameState
    /\ ev = NoEvent
    /\ diceRun = 0
    /\ coinRun = 0
    /\ firstTick = NotKept

ReducerNext ==
    \/ \E v \in getRandomDiceValue : ev.op = "none" /\ ReduceDiceClick(v)
    \/ ev.op = "none" /\ ReduceDiceRollDone

ReducerSpec == ReducerInit /\ [][ReducerNext]_vars


(***************************************************************************)
(* The turn state machine with the renders of LudoGame: each render        *)
(* evaluates useState(initiateGameState()) again, which builds a board     *)
(* that only the first render keeps (RenderSpec).                          *)
(***************************************************************************)
\* A render of LudoGame after the first: the board of its initiateGameState
\* call, built with the uuid() draws of seed, is dropped.
Render(seed) ==
    /\ ev' = [NoEvent EXCEPT !.op = "render", !.value = seed]
    /\ UNCHANGED <<gameState, now, animationStartTime, lastDiceValue,
                   ludoAnimationStartTime, animationPath, isSelectingPath,
                   prev, diceRun, coinRun, firstTick>>

\* The board the last getBoardMatrix call returned.
Built == IF ev.op = "render" THEN getBoardMatrix(ev.value) ELSE BoardOf(gameState)

RenderNext ==
    \/ TurnNext
    \/ \E seed \in Seeds : Render(seed)

RenderSpec == Init /\ [][RenderNext]_vars


(***************************************************************************)
(* The dice on its own: PlayersPanel's click handler and the frames of its *)
(* render loop, the game not started, with every face of the dice          *)
(* (DiceSpec).                                                             *)
(***************************************************************************)
DiceNext ==
    \/ \E d \in ClockSteps : AdvanceClock(d)
    \/ \E v \in getRandomDiceValue : DiceCanvasClick(v)
    \/ \E skip \in BOOLEAN : \E face \in getRandomDiceValue :
           Frame(TRUE, FALSE, face, skip)

DiceSpec == Init /\ [][DiceNext]_vars


(***************************************************************************)
(* The game with the history of its runs kept (RunSpec).                   *)
(***************************************************************************)
RunInit ==
    /\ gameState = initiateGameState(PageSeed)
    /\ now = FirstTime
    /\ animationStartTime = Undefined
    /\ lastDiceValue = Undefined
    /\ ludoAnimationStartTime = Undefined
    /\ animationPath = <<>>
    /\ isSelectingPath = FALSE
    /\ prev = gameState
    /\ ev = NoEvent
    /\ diceRun = 0
    /\ coinRun = 0
    /\ firstTick = NoRun

\* The time a run takes does not depend on the faces the roll shows: the frames
\* of RunSpec redraw the lowest sampled face and skip none.
RunFace == CHOOSE face \in SampleFaces : \A other \in SampleFaces : face <= other

RunNext ==
    \/ \E d \in ClockSteps : AdvanceClock(d)
    \/ \E v \in SampleFaces : DiceCanvasClick(v)
    \/ StartButtonClick
    \/ \E rc \in ClickCells : BoardCanvasClick(rc)
    \/ \E rc \in ClickCells : BoardContextMenu(rc)
    \/ \E runDice, runBoard \in BOOLEAN : LoopFrame(runDice, runBoard, RunFace, FALSE)

RunSpec == RunInit /\ [][RunNext]_vars


(***************************************************************************)
(* The application under a clock that never stops (LiveSpec). The ticks    *)
(* read performance.now() only through currentTime - slot and through the  *)
(* truthiness of the slot, so once now has reached MaxTime the time that   *)
(* passes moves the armed slots back instead of moving now forward; a slot *)
(* older than MaxTime - FirstTime stays that old, which is longer than     *)
(* both durations.                                                         *)
(***************************************************************************)
Aged(slot, d) ==
    IF Falsy(slot) THEN slot
    ELSE IF slot - d < FirstTime THEN FirstTime ELSE slot - d

PassTime(d) ==
    /\ now' = IF now + d <= MaxTime THEN now + d ELSE now
    /\ animationStartTime' = IF now + d <= MaxTime THEN animationStartTime
                              ELSE Aged(animationStartTime, d)
    /\ ludoAnimationStartTime' = IF now + d <= MaxTime THEN ludoAnimationStartTime
                                  ELSE Aged(ludoAnimationStartTime, d)
    /\ ev' = NoEvent
    /\ UNCHANGED <<gameState, lastDiceValue, animationPath, isSelectingPath,
                   prev, diceRun, coinRun, firstTick>>

\* A frame of PlayersPanel's requestAnimationFrame loop, which runs while the
\* dice is rolling.
DiceLoopFrame ==
    /\ gameState.diceState.rolling
    /\ \E runBoard \in BOOLEAN : LoopFrame(TRUE, runBoard, RunFace, FALSE)

\* A frame of LudoBoard's requestAnimationFrame loop, which runs while started.
BoardLoopFrame ==
    /\ gameState.started
    /\ \E runDice \in BOOLEAN : LoopFrame(runDice, TRUE, RunFace, FALSE)

LiveClockSteps == {2 * CoinDuration}

LiveNext ==
    \/ \E d \in LiveClockSteps : PassTime(d)
    \/ DiceCanvasClick(RunFace)
    \/ StartButtonClick
    \/ \E rc \in ClickCells : BoardCanvasClick(rc)
    \/ \E rc \in ClickCells : BoardContextMenu(rc)
    \/ \E runDice, runBoard \in BOOLEAN : LoopFrame(runDice, runBoard, RunFace, FALSE)

\* The clock keeps advancing and each loop keeps delivering frames while it
\* runs; nothing is assumed of the user.
LiveSpec ==
    /\ Init
    /\ [][LiveNext]_vars
    /\ WF_vars(\E d \in LiveClockSteps : PassTime(d))
    /\ WF_vars(DiceLoopFrame)
    /\ WF_vars(BoardLoopFrame)


(***************************************************************************)
(* The board on its own: LudoBoard's handlers and the frames of its render *)
(* loop, with no dice roll (BoardSpec).                                    *)
(***************************************************************************)
\* The cells a click lands on: Red's and Yellow's start cells, (row, col).
BoardCells == {<<6, 1>>, <<8, 13>>}
\* The time between two events, in ms: half the duration of a coin slide.
BoardClockSteps == {CoinDuration \div 2}

BoardNext ==
    \/ \E d \in BoardClockSteps : AdvanceClock(d)
    \/ StartButtonClick
    \/ \E rc \in BoardCells : BoardCanvasClick(rc)
    \/ \E rc \in BoardCells : BoardContextMenu(rc)
    \/ \E face \in SampleFaces : Frame(FALSE, TRUE, face, FALSE)

BoardSpec == Init /\ [][BoardNext]_vars

\* A call of the exported renderLudo with the selected path as it is, of any
\* length, and LudoBoard's completion callback (TickSpec).
RenderLudoCall ==
    LET c == renderLudo(gameState, animationPath, ludoAnimationStartTime, now,
                        CoinDuration)
    IN /\ ludoAnimationStartTime' = c.ludoAnimationStartTime
       /\ gameState' = IF c.complete THEN [gameState EXCEPT !.started = FALSE]
                       ELSE gameState
       /\ coinRun' = IF c.ticked /\ ~c.armedBefore THEN 0
                     ELSE IF c.complete THEN coinRun + 1 ELSE coinRun
       /\ ev' = [NoEvent EXCEPT
                    !.op = "renderLudo",
                    !.coin = [ticked |-> c.ticked, armedBefore |-> c.armedBefore,
                              timeElapsed |-> c.timeElapsed,
                              complete |-> c.complete, sinceFirst |-> 0,
                              thrown |-> c.thrown, drawn |-> c.drawn,
                              passed |-> Len(animationPath),
                              position |-> c.position]]
       /\ UNCHANGED <<now, animationStartTime, lastDiceValue, animationPath,
                      isSelectingPath, prev, diceRun, firstTick>>

TickNext ==
    \/ \E d \in BoardClockSteps : AdvanceClock(d)
    \/ StartButtonClick
    \/ \E rc \in BoardCells : BoardCanvasClick(rc)
    \/ \E rc \in BoardCells : BoardContextMenu(rc)
    \/ \E face \in SampleFaces : Frame(FALSE, TRUE, face, FALSE)
    \/ RenderLudoCall

TickSpec == Init /\ [][TickNext]_vars


(***************************************************************************)
(* The easing functions on their own: one call of one of them on a time    *)
(* n/d of a grid that reaches one step below 0 and one step above 1        *)
(* (EaseSpec).                                                             *)
(***************************************************************************)
\* The highest denominator of the grid.
MaxDen == 100

EaseTimes == {time \in (-1..(MaxDen + 1)) \X (1..MaxDen) : time[1] <= time[2] + 1}

EaseInit ==
    /\ gameState = initiateGameState(PageSeed)
    /\ now = FirstTime
    /\ animationStartTime = Undefined
    /\ lastDiceValue = Undefined
    /\ ludoAnimationStartTime = Undefined
    /\ animationPath = <<>>
    /\ isSelectingPath = FALSE
    /\ prev = gameState
    /\ \E time \in EaseTimes : ev = [NoEvent EXCEPT !.time = time]
    /\ diceRun = 0
    /\ coinRun = 0
    /\ firstTick = NotKept

EaseIn ==
    /\ ev.op = "none"
    /\ ev' = [ev EXCEPT !.op = "easeIn", !.eased = easeIn(ev.time)]
    /\ UNCHANGED <<gameState, now, animationStartTime, lastDiceValue,
                   ludoAnimationStartTime, animationPath, isSelectingPath,
                   prev, diceRun, coinRun, firstTick>>

EaseOut ==
    /\ ev.op = "none"
    /\ ev' = [ev EXCEPT !.op = "easeOut", !.eased = easeOut(ev.time)]
    /\ UNCHANGED <<gameState, now, animationStartTime, lastDiceValue,
                   ludoAnimationStartTime, animationPath, isSelectingPath,
                   prev, diceRun, coinRun, firstTick>>

EaseInOut ==
    /\ ev.op = "none"
    /\ ev' = [ev EXCEPT !.op = "easeInOut", !.eased = easeInOut(ev.time)]
    /\ UNCHANGED <<gameState, now, animationStartTime, lastDiceValue,
                   ludoAnimationStartTime, animationPath, isSelectingPath,
                   prev, diceRun, coinRun, firstTick>>

EaseNext == EaseIn \/ EaseOut \/ EaseInOut

EaseSpec == EaseInit /\ [][EaseNext]_vars


(***************************************************************************)
(* Properties                                                              *)
(***************************************************************************)
Before == getCurrentPlayer(prev)
After == getCurrentPlayer(gameState)

\* C1: in every state reached from the initial one by dice clicks and roll
\* settles, every player's movesLeft is at least 0.
C1_MovesLeftNeverNegative ==
    \A k \in 1..Len(gameState.players) : gameState.players[k].movesLeft >= 0

\* C2: a dice click with a value of 1..5 takes one off the current player's
\* movesLeft, puts the player in Rolling, keeps the player's nextPossibleStates
\* and sets diceState to {value, rolling: true}.
C2_ClickNonSix ==
    (ev.op = "click" /\ ev.value \in 1..5) =>
        /\ After.movesLeft = Before.movesLeft - 1
        /\ After.state = ROLLING
        /\ After.nextPossibleStates = Before.nextPossibleStates
        /\ gameState.diceState = [value |-> ev.value, rolling |-> TRUE]

C2_Witness ==
    /\ ev.op = "click" /\ ev.value = 5
    /\ prev.currentPlayer = YELLOW
    /\ Before.movesLeft = 0 /\ After.movesLeft = -1
    /\ Before.nextPossibleStates = <<THINKING, MOVING>>

\* C3: a dice click with the value 6 sets the current player's movesLeft to 1
\* and nextPossibleStates to [Thinking], whatever they were, puts the player in
\* Rolling and sets diceState to {value: 6, rolling: true}.
C3_ClickSix ==
    (ev.op = "click" /\ ev.value = 6) =>
        /\ After.movesLeft = 1
        /\ After.nextPossibleStates = <<THINKING>>
        /\ After.state = ROLLING
        /\ gameState.diceState = [value |-> 6, rolling |-> TRUE]

C3_Witness ==
    /\ ev.op = "click" /\ ev.value = 6
    /\ Before.movesLeft = -1 /\ Before.nextPossibleStates = <<>>
    /\ After.movesLeft = 1

\* C4: a roll settle on a dice value other than 6 puts the current player in
\* Thinking, clears diceState.rolling, keeps diceState.value and keeps the
\* player's nextPossibleStates.
C4_SettleNonSix ==
    (ev.op = "settle" /\ prev.diceState.value # 6) =>
        /\ After.state = THINKING
        /\ gameState.diceState.rolling = FALSE
        /\ gameState.diceState.value = prev.diceState.value
        /\ After.nextPossibleStates = Before.nextPossibleStates

C4_Witness ==
    /\ ev.op = "settle" /\ prev.diceState = [value |-> 3, rolling |-> TRUE]
    /\ Before.state = ROLLING /\ After.state = THINKING
    /\ Before.nextPossibleStates = <<THINKING, MOVING>>

\* C5: a roll settle on the dice value 6 sets the current player's movesLeft to
\* 1 and nextPossibleStates to [Moving], whatever movesLeft was, puts the player
\* in Thinking and clears diceState.rolling.
C5_SettleSix ==
    (ev.op = "settle" /\ prev.diceState.value = 6) =>
        /\ After.movesLeft = 1
        /\ After.nextPossibleStates = <<MOVING>>
        /\ After.state = THINKING
        /\ gameState.diceState.rolling = FALSE

C5_Witness ==
    /\ ev.op = "settle" /\ prev.diceState = [value |-> 6, rolling |-> TRUE]
    /\ Before.movesLeft = 3 /\ After.movesLeft = 1
    /\ Before.nextPossibleStates = <<ROLLING>>

\* C6: the result of a dice click or a roll settle differs from the snapshot it
\* was given (prev, which the reducers assign nothing to) only in diceState and
\* in the current player's state, movesLeft and nextPossibleStates:
\* currentPlayer, started, boardMatrix, the players' order and ids, the other
\* players' entries and the current player's coins are those of the input.
C6_Frame ==
    (ev.op \in {"click", "settle"}) =>
        /\ DOMAIN gameState = DOMAIN prev
        /\ gameState.currentPlayer = prev.currentPlayer
        /\ gameState.started = prev.started
        /\ gameState.boardMatrix = prev.boardMatrix
        /\ Len(gameState.players) = Len(prev.players)
        /\ \A k \in 1..Len(prev.players) :
            /\ gameState.players[k].id = prev.players[k].id
            /\ gameState.players[k].coins = prev.players[k].coins
            /\ DOMAIN gameState.players[k] = DOMAIN prev.players[k]
            /\ prev.players[k].id # prev.currentPlayer =>
                   gameState.players[k] = prev.players[k]

C6_Witness ==
    /\ ev.op = "settle"
    /\ prev.currentPlayer = GREEN /\ prev.started
    /\ After.movesLeft # Before.movesLeft
    /\ gameState.diceState # prev.diceState
    /\ gameState.players[1] = prev.players[1]

\* C7: in every state of the game the players list holds four players, Red,
\* Green, Yellow and Blue, and currentPlayer is the id of exactly one of them:
\* getCurrentPlayer finds a player.
C7_FourPlayersOneCurrent ==
    /\ Len(gameState.players) = 4
    /\ {gameState.players[k].id : k \in 1..Len(gameState.players)} = PlayerId
    /\ Cardinality({k \in 1..Len(gameState.players) :
                        gameState.players[k].id = gameState.currentPlayer}) = 1
    /\ getCurrentPlayer(gameState) # NotFound

C7_Witness ==
    /\ ev.op = "frame" /\ ev.coin.complete /\ ev.dice.rollDone
    /\ ~gameState.started

\* C8, as claimed: after a dice click with 6 and the roll settle that follows
\* it, the current player's nextPossibleStates contains Rolling.
C8_SixPermitsRolling ==
    (ev.op = "settle" /\ ev.priorOp = "click" /\ ev.priorValue = 6) =>
        ROLLING \in Range(After.nextPossibleStates)

\* C8, amended: after a dice click with 6 and the roll settle that follows it,
\* the current player is in Thinking with movesLeft = 1 and nextPossibleStates
\* = [Moving], which does not contain Rolling; the click with 6 itself had set
\* nextPossibleStates to [Thinking], the state the settle moves into.
C8_SixPermitsMoving ==
    (ev.op = "settle" /\ ev.priorOp = "click" /\ ev.priorValue = 6) =>
        /\ Before.nextPossibleStates = <<THINKING>>
        /\ After.state = THINKING
        /\ After.movesLeft = 1
        /\ After.nextPossibleStates = <<MOVING>>
        /\ ROLLING \notin Range(After.nextPossibleStates)

C8_Witness ==
    /\ ev.op = "settle" /\ ev.priorOp = "click" /\ ev.priorValue = 6
    /\ After.nextPossibleStates = <<MOVING>>
    /\ After.movesLeft = 1

\* C9: the state a dice click (Rolling) or a roll settle (Thinking) moves the
\* current player into is one of the player's nextPossibleStates in the
\* snapshot the transition was applied to.
C9_TransitionsPermitted ==
    /\ ev.op = "click" => ROLLING \in Range(Before.nextPossibleStates)
    /\ ev.op = "settle" => THINKING \in Range(Before.nextPossibleStates)

\* C10: a tick that finds its slot armed and more than the duration elapsed
\* (2000 ms for the dice, 500 ms for the coin) clears the slot and calls the
\* completion callback; the callback is called on no other tick; and between
\* two armings of a slot the callback is called once, and not before the slot
\* is cleared.
C10_CompletesOncePerRun ==
    /\ (ev.dice.ticked /\ ev.dice.armedBefore /\ ev.dice.timeElapsed > DiceDuration) =>
           ev.dice.rollDone /\ Falsy(animationStartTime) /\ diceRun = 1
    /\ (ev.coin.ticked /\ ev.coin.armedBefore /\ ev.coin.timeElapsed > CoinDuration) =>
           ev.coin.complete /\ Falsy(ludoAnimationStartTime) /\ coinRun = 1
    /\ ev.dice.rollDone =>
           ev.dice.ticked /\ ev.dice.armedBefore /\ ev.dice.timeElapsed > DiceDuration
    /\ ev.coin.complete =>
           ev.coin.ticked /\ ev.coin.armedBefore /\ ev.coin.timeElapsed > CoinDuration
    /\ diceRun <= 1 /\ coinRun <= 1
    /\ ~Falsy(animationStartTime) => diceRun = 0
    /\ ~Falsy(ludoAnimationStartTime) => coinRun = 0

C10_Witness ==
    /\ ev.op = "frame"
    /\ ev.dice.rollDone /\ ev.dice.timeElapsed = DiceDuration + 500
    /\ coinRun = 1 /\ diceRun = 1
    /\ Falsy(animationStartTime) /\ Falsy(ludoAnimationStartTime)

\* C11: on a tick of a coin slide over the path [start, end], at elapsed = 0
\* the coin is drawn exactly at start; at elapsed = duration, and at any
\* elapsed beyond it, the coin is drawn exactly at end and onAnimationComplete
\* is called, once in the run.
C11_SlideEndpoints ==
    (ev.op = "frame" /\ ev.coin.ticked /\ ev.coin.armedBefore) =>
        /\ ev.coin.timeElapsed = 0 =>
               /\ ev.coin.drawn
               /\ ev.coin.position.x[1] = animationPath[1].x * ev.coin.position.x[2]
               /\ ev.coin.position.y[1] = animationPath[1].y * ev.coin.position.y[2]
        /\ ev.coin.timeElapsed >= CoinDuration =>
               /\ ev.coin.drawn
               /\ ev.coin.position.x[1] = animationPath[2].x * ev.coin.position.x[2]
               /\ ev.coin.position.y[1] = animationPath[2].y * ev.coin.position.y[2]
               /\ ev.coin.complete
               /\ coinRun = 1

\* C12: each of easeIn, easeOut and easeInOut returns a value for every time
\* in [0, 1], both ends included, and throws, returning no value, for every
\* time below 0 or above 1.
C12_EasingDomain ==
    (ev.op \in {"easeIn", "easeOut", "easeInOut"}) =>
        /\ (0 <= ev.time[1] /\ ev.time[1] <= ev.time[2]) => ~ev.eased.error
        /\ (ev.time[1] < 0 \/ ev.time[1] > ev.time[2]) => ev.eased = Thrown

C12_Witness ==
    /\ ev.op = "easeIn" /\ ev.time = <<101, 100>>
    /\ ev.eased.error

C14_BoardAndCoins ==
    LET cells == Flat(Built)
        held == {k \in 1..Len(cells) : Len(cells[k].coins) > 0}
    IN /\ Len(Built) = 15
       /\ \A i \in 1..Len(Built) : Len(Built[i]) = 15
       /\ Len(cells) = 225
       /\ \A k \in 1..Len(cells) : Len(cells[k].coins) <= 1
       /\ Cardinality(held) = 16
       /\ \A p \in PlayerId :
              Cardinality({k \in held : cells[k].coins[1].player = p}) = 4
       /\ \A k \in held :
              /\ cells[k].coins[1].player \in PlayerId
              /\ cells[k].coins[1].position = cells[k].position
              /\ cells[k].position =
                     [row |-> (k - 1) \div 15, col |-> (k - 1) % 15]
              /\ cellTypeMask[cells[k].position.row + 1][cells[k].position.col + 1] = 5
              /\ cells[k].type = HOME
              /\ cells[k].color = getPlayerColor(cells[k].coins[1].player)

C14_Witness ==
    /\ ev.op = "render" /\ ev.value # gameState.boardMatrix
    /\ Built[3][3].coins[1].player = RED
    /\ Built[13][13].coins[1].player = YELLOW
    /\ Built[13][13].coins[1].position = [row |-> 12, col |-> 12]

\* C15, as claimed: every coin of the initial board lies on a cell whose type
\* is Start and whose player is the coin's player.
C15_CoinsOnStartCells ==
    \A i, j \in 1..BOARD_SIZE :
        LET cell == BoardOf(gameState)[i][j]
        IN \A c \in 1..Len(cell.coins) :
               cell.type = START /\ cell.player = cell.coins[c].player

\* C15, amended: every coin of the initial board lies on a cell whose type is
\* Home, not Start, that has no player of its own, and whose colour is the
\* colour of the coin's player; no Start cell holds a coin.
C15_CoinsOnHomeCells ==
    \A i, j \in 1..BOARD_SIZE :
        LET cell == BoardOf(gameState)[i][j]
        IN /\ \A c \in 1..Len(cell.coins) :
                  /\ cell.type = HOME
                  /\ cell.player = ""
                  /\ cell.color = getPlayerColor(cell.coins[c].player)
           /\ cell.type = START => cell.coins = <<>>

C15_Witness ==
    /\ gameState = initiateGameState(PageSeed)
    /\ BoardOf(gameState)[3][3].coins # <<>>
    /\ BoardOf(gameState)[3][3].type = HOME
    /\ BoardOf(gameState)[7][2].type = START
    /\ BoardOf(gameState)[7][2].player = RED

\* C16, as claimed: two calls of getBoardMatrix return equal boards, the ids
\* of the coins included.
C16_SameBoardEveryCall ==
    ev.op = "render" => getBoardMatrix(ev.value) = BoardOf(gameState)

\* C16, amended: two calls of getBoardMatrix return boards that are equal
\* field for field apart from the ids of the coins, which each call draws
\* with uuid(): the cells' ids, positions, types, players and colours are
\* equal, and so are the number, the players and the positions of the coins
\* of each cell.
C16_SameBoardApartFromIds ==
    ev.op = "render" =>
        \A i, j \in 1..BOARD_SIZE :
            LET a == getBoardMatrix(ev.value)[i][j]
                b == BoardOf(gameState)[i][j]
            IN /\ a.id = b.id
               /\ a.position = b.position
               /\ a.type = b.type
               /\ a.player = b.player
               /\ a.color = b.color
               /\ Len(a.coins) = Len(b.coins)
               /\ \A c \in 1..Len(a.coins) :
                      /\ a.coins[c].player = b.coins[c].player
                      /\ a.coins[c].position = b.coins[c].position

C16_Witness ==
    /\ ev.op = "render"
    /\ getBoardMatrix(ev.value)[3][3].coins[1].id
           # BoardOf(gameState)[3][3].coins[1].id
    /\ getBoardMatrix(ev.value)[3][3].coins[1].player
           = BoardOf(gameState)[3][3].coins[1].player

\* C17: the initial game state has currentPlayer = Red, started = false,
\* diceState = {value: 3, rolling: false} and the players Red, Green, Yellow,
\* Blue in that order, each NotStarted with movesLeft = 3, nextPossibleStates
\* = [Rolling] and the 4 coins of the board that are its own; a dice click
\* with 4 on it gives Red movesLeft = 2 and Rolling, with rolling = true; the
\* roll settle after that gives Red Thinking, with rolling = false and the
\* dice value still 4.
C17_NewGameScenario ==
    /\ ev.op = "none" =>
           /\ gameState.currentPlayer = RED
           /\ gameState.started = FALSE
           /\ gameState.diceState = [value |-> 3, rolling |-> FALSE]
           /\ [k \in 1..Len(gameState.players) |-> gameState.players[k].id]
                  = <<RED, GREEN, YELLOW, BLUE>>
           /\ \A k \in 1..Len(gameState.players) :
                  LET player == gameState.players[k]
                      cells == Flat(BoardOf(gameState))
                  IN /\ player.state = NOT_STARTED
                     /\ player.movesLeft = 3
                     /\ player.nextPossibleStates = <<ROLLING>>
                     /\ Len(player.coins) = 4
                     /\ Cardinality(Range(player.coins)) = 4
                     /\ Range(player.coins) =
                            {cells[c].coins[1] : c \in
                                {c \in 1..Len(cells) :
                                    /\ cells[c].coins # <<>>
                                    /\ cells[c].coins[1].player = player.id}}
    /\ (ev.op = "click" /\ ev.value = 4 /\ ev.priorOp = "none") =>
           /\ gameState.currentPlayer = RED
           /\ After.movesLeft = 2
           /\ After.state = ROLLING
           /\ gameState.diceState.rolling = TRUE
    /\ (ev.op = "settle" /\ ev.priorOp = "click" /\ ev.priorValue = 4
           /\ Before.movesLeft = 2) =>
           /\ gameState.currentPlayer = RED
           /\ After.state = THINKING
           /\ gameState.diceState.rolling = FALSE
           /\ gameState.diceState.value = 4

C17_Witness ==
    /\ ev.op = "settle" /\ ev.priorOp = "click" /\ ev.priorValue = 4
    /\ Before.movesLeft = 2 /\ Before.state = ROLLING
    /\ After.state = THINKING
    /\ gameState.diceState = [value |-> 4, rolling |-> FALSE]

\* C18: the tick that completes a dice roll sets window.lastDiceValue to
\* diceState.value and calls onRollDone, both in that tick; and a renderDice
\* call that finds the dice not rolling draws the face diceState.value.
C18_SettleShowsRolledValue ==
    /\ (ev.dice.ticked /\ ev.dice.armedBefore /\ ev.dice.timeElapsed > DiceDuration) =>
           ev.dice.rollDone /\ lastDiceValue = gameState.diceState.value
    /\ ev.dice.rollDone => lastDiceValue = gameState.diceState.value
    /\ (ev.dice.drawn # 0 /\ ~ev.dice.ticked) =>
           ev.dice.drawn = gameState.diceState.value

C18_Witness ==
    /\ ev.op = "frame" /\ ev.dice.drawn = 6 /\ ~ev.dice.ticked
    /\ ~gameState.diceState.rolling
    /\ diceRun = 1 /\ Falsy(animationStartTime)
    /\ lastDiceValue = 6

\* C19: in every state diceState.value is in 1..6; every face renderDice draws
\* is in 1..6; from the first tick of a roll on window.lastDiceValue is in
\* 1..6 (before it, it is undefined); and a tick that skips leaves
\* window.lastDiceValue as it was.
C19_FacesInRange ==
    /\ gameState.diceState.value \in 1..6
    /\ lastDiceValue = Undefined \/ lastDiceValue \in 1..6
    /\ ev.dice.ticked => lastDiceValue \in 1..6
    /\ ev.dice.drawn # 0 => ev.dice.drawn \in 1..6
    /\ ev.dice.skipped => ev.dice.kept

C19_Witness ==
    /\ ev.op = "frame" /\ ev.dice.ticked /\ ev.dice.skipped
    /\ ev.dice.kept /\ lastDiceValue = 5
    /\ gameState.diceState.value = 2 /\ ev.dice.drawn = 5

\* C20: whenever a new animation run begins, the slot of its kind is empty: a
\* dice click finds window.animationStartTime empty, and a new path of two
\* points, or a start request on a path of two points, finds
\* window.ludoAnimationStartTime empty.
C20_SingleAnimationInFlight ==
    [][/\ ev'.op = "click" => Falsy(animationStartTime)
       /\ (Len(animationPath') > 1 /\ animationPath' # animationPath) =>
              Falsy(ludoAnimationStartTime)
       /\ (Len(animationPath) > 1 /\ gameState'.started /\ ~gameState.started) =>
              Falsy(ludoAnimationStartTime)]_vars

\* C21: the completion callback of a run, of the dice roll (2000 ms) as of the
\* coin slide (500 ms), is called only on a tick whose time is more than the
\* duration after the first tick of that run, the run of a roll beginning
\* with its dice click and the run of a slide with its path or start request.
C21_NeverCompletesEarly ==
    /\ ev.dice.rollDone => ev.dice.sinceFirst > DiceDuration
    /\ ev.coin.complete => ev.coin.sinceFirst > CoinDuration

\* C22: on every tick that calls an easing function, easeOut for the dice and
\* easeInOut for the coin, the argument timeElapsed / animationDuration is in
\* [0, 1] and the function does not throw.
C22_EasingArgsInRange ==
    /\ (ev.dice.ticked /\ ev.dice.armedBefore /\ ~ev.dice.rollDone) =>
           /\ 0 <= ev.dice.timeElapsed /\ ev.dice.timeElapsed <= DiceDuration
           /\ ~ev.dice.thrown
    /\ (ev.coin.ticked /\ ev.coin.armedBefore /\ ~ev.coin.complete) =>
           /\ 0 <= ev.coin.timeElapsed /\ ev.coin.timeElapsed <= CoinDuration
           /\ ~ev.coin.thrown
           /\ ev.coin.drawn

C22_Witness ==
    /\ ev.op = "frame"
    /\ ev.dice.ticked /\ ev.dice.armedBefore /\ ~ev.dice.rollDone
    /\ ev.dice.timeElapsed = DiceDuration
    /\ ev.coin.ticked /\ ev.coin.armedBefore /\ ~ev.coin.complete
    /\ ev.coin.timeElapsed = CoinDuration

\* C23: while frames keep coming and the clock keeps advancing, every dice
\* click is eventually followed by a roll settle that leaves the current player
\* in Thinking with rolling = false, and every coin slide that has ticked with a
\* path of two points eventually calls onAnimationComplete.
C23_EveryRunCompletes ==
    /\ (ev.op = "click") ~> (After.state = THINKING /\ ~gameState.diceState.rolling)
    /\ (ev.op = "frame" /\ ev.coin.ticked) ~> (ev.op = "frame" /\ ev.coin.complete)

\* C24 as stated: while started = false no step arms, reads or clears the coin
\* slot or calls onAnimationComplete, whatever the path, and a step that takes
\* started to false leaves the coin slot as it was.
C24_StopLeavesCoinSlot ==
    [][/\ ~gameState.started =>
             /\ ludoAnimationStartTime' = ludoAnimationStartTime
             /\ ~(ev'.op = "frame" /\ (ev'.coin.ticked \/ ev'.coin.complete))
       /\ gameState.started /\ ~gameState'.started =>
             ludoAnimationStartTime' = ludoAnimationStartTime]_vars

\* C24, amended: while started = false no step arms, reads or clears the coin
\* slot or calls onAnimationComplete, whatever the path; started becomes false
\* only on the tick that completes a slide, which has cleared the coin slot.
C24_StoppedBoardIdle ==
    [][/\ ~gameState.started =>
             /\ ludoAnimationStartTime' = ludoAnimationStartTime
             /\ ~(ev'.op = "frame" /\ (ev'.coin.ticked \/ ev'.coin.complete))
       /\ gameState.started /\ ~gameState'.started =>
             /\ ev'.op = "frame" /\ ev'.coin.complete
             /\ ~Falsy(ludoAnimationStartTime)
             /\ ludoAnimationStartTime' = Undefined]_vars

C24_Witness ==
    /\ ~gameState.started
    /\ coinRun > 0
    /\ Len(animationPath) = 2
    /\ ev.op = "frame" /\ ~ev.coin.ticked

\* C25: in every frame, whatever ticks together, a flush without a dice tick
\* leaves window.animationStartTime and window.lastDiceValue unchanged and a
\* flush without a coin tick leaves window.ludoAnimationStartTime unchanged,
\* and each tick completes exactly when its own slot is older than its own
\* duration, as it does when it runs alone.
C25_SlotsIndependent ==
    [][ev'.op = "frame" =>
          /\ ~ev'.dice.ticked =>
                 /\ animationStartTime' = animationStartTime
                 /\ lastDiceValue' = lastDiceValue
          /\ ~ev'.coin.ticked => ludoAnimationStartTime' = ludoAnimationStartTime
          /\ ev'.dice.ticked =>
                 /\ ev'.dice.rollDone <=> /\ ~Falsy(animationStartTime)
                                          /\ now - animationStartTime > DiceDuration
                 /\ animationStartTime' =
                        IF Falsy(animationStartTime) THEN now
                        ELSE IF ev'.dice.rollDone THEN 0 ELSE animationStartTime
          /\ ev'.coin.ticked =>
                 /\ ev'.coin.complete <=> /\ ~Falsy(ludoAnimationStartTime)
                                          /\ now - ludoAnimationStartTime > CoinDuration
                 /\ ludoAnimationStartTime' =
                        IF Falsy(ludoAnimationStartTime) THEN now
                        ELSE IF ev'.coin.complete THEN Undefined
                        ELSE ludoAnimationStartTime]_vars

C25_Witness ==
    /\ ev.op = "frame"
    /\ ev.dice.ticked /\ ev.dice.armedBefore /\ ~ev.dice.rollDone
    /\ ev.coin.ticked /\ ev.coin.complete

\* C26: a call of renderLudo with a path of fewer than two points does not get
\* past the length test of animateCoins: it leaves the coin slot and the game
\* state as they are, draws no coin and no guide line and does not call
\* onAnimationComplete; and LudoBoard passes the empty path whenever fewer than
\* two points are selected.
C26_ShortPathNoOp ==
    [][/\ ev'.op \in {"frame", "renderLudo"} /\ Len(animationPath) < 2 =>
             /\ ludoAnimationStartTime' = ludoAnimationStartTime
             /\ gameState' = gameState
             /\ ~ev'.coin.ticked /\ ~ev'.coin.complete /\ ~ev'.coin.drawn
       /\ ev'.op = "frame" /\ Len(animationPath) < 2 => ev'.coin.passed = 0]_vars

C26_Witness ==
    /\ ev.op = "renderLudo"
    /\ gameState.started
    /\ Len(animationPath) = 1
    /\ ~Falsy(ludoAnimationStartTime)
    /\ now - ludoAnimationStartTime > CoinDuration

\* C27: in every reachable state currentPlayer is Red and Green, Yellow and Blue
\* are NotStarted with movesLeft 3 and nextPossibleStates [Rolling]; no step
\* changes a player's coins or the boardMatrix reference.
C27_TurnNeverAdvances ==
    [][/\ gameState.currentPlayer = RED /\ gameState'.currentPlayer = RED
       /\ gameState.players[1].id = RED
       /\ gameState'.players[1].coins = gameState.players[1].coins
       /\ \A k \in 2..Len(gameState.players) :
              /\ gameState.players[k].id \in {GREEN, YELLOW, BLUE}
              /\ gameState.players[k].state = NOT_STARTED
              /\ gameState.players[k].movesLeft = 3
              /\ gameState.players[k].nextPossibleStates = <<ROLLING>>
              /\ gameState'.players[k] = gameState.players[k]
       /\ gameState'.boardMatrix = gameState.boardMatrix]_vars

C27_Witness ==
    /\ ev.op = "frame" /\ ev.dice.rollDone
    /\ After.state = THINKING
    /\ After.movesLeft <= 0
    /\ getPlayer(GREEN, gameState).state = NOT_STARTED

\* C28: in every reachable state each player's state is NotStarted, Rolling or
\* Thinking, also when its nextPossibleStates hold Moving.
C28_OnlyThreeStates ==
    \A k \in 1..Len(gameState.players) :
        gameState.players[k].state \in {NOT_STARTED, ROLLING, THINKING}

C28_Witness ==
    /\ ev.op = "click" /\ ev.value # 6
    /\ After.nextPossibleStates = <<MOVING>>
    /\ After.state = ROLLING

\* C29: in every reachable state diceState.rolling is true exactly when the
\* current player's state is Rolling, also right after the board has replaced
\* the whole game state.
C29_RollingIffPlayerRolling ==
    gameState.diceState.rolling <=> After.state = ROLLING

C29_Witness ==
    /\ ev.op = "frame"
    /\ ev.dice.rollDone /\ ev.coin.complete
    /\ gameState.diceState.rolling
    /\ After.state = ROLLING
    /\ ~gameState.started

\* C30: a settle of a value other than 6 lowers the current player's movesLeft
\* by one, so a dice click of such a value followed by its settle lowers it by
\* two; a settle of a 6, and so a cycle with a 6, ends with movesLeft = 1.
C30_SettleAlsoDecrements ==
    ev.op = "settle" =>
        /\ ev.value # 6 => After.movesLeft = Before.movesLeft - 1
        /\ ev.value # 6 /\ ev.priorOp = "click" =>
               After.movesLeft = ev.movesBefore - 2
        /\ ev.value = 6 => After.movesLeft = 1

C30_Witness ==
    /\ ev.op = "settle" /\ ev.priorOp = "click"
    /\ ev.value # 6 /\ ev.priorValue = ev.value
    /\ ev.movesBefore = 3
    /\ After.movesLeft = 1

\* C31: a board update, the start button or the completion of a coin slide,
\* changes only started: the diceState and the players after it are those of
\* the latest game state before it, which is the settled one when the roll has
\* settled earlier in the same flush.
C31_NoLostUpdate ==
    [][(gameState'.started # gameState.started
           \/ (ev'.op = "frame" /\ ev'.coin.complete)) =>
          LET latest == IF ev'.op = "frame" /\ ev'.dice.rollDone
                        THEN reduceDiceRollDone(gameState)
                        ELSE gameState
          IN /\ gameState'.diceState = latest.diceState
             /\ gameState'.players = latest.players]_vars

\* C32: a click on the board's button leaves the game started, whether it was
\* started or not, and changes nothing else; started goes from true to false
\* only on the frame whose coin tick calls onAnimationComplete.
C32_ButtonNeverStops ==
    [][/\ ev'.op = "start" =>
             /\ gameState'.started
             /\ gameState' = [gameState EXCEPT !.started = TRUE]
             /\ ludoAnimationStartTime' = ludoAnimationStartTime
       /\ gameState.started /\ ~gameState'.started =>
             ev'.op = "frame" /\ ev'.coin.complete]_vars

C32_Witness ==
    /\ ev.op = "start"
    /\ gameState.started
    /\ Len(animationPath) = 2
    /\ ~Falsy(ludoAnimationStartTime)
    /\ now - ludoAnimationStartTime <= CoinDuration


====
